---- MODULE Spec2Model ----
(***************************************************************************)
(* A model of pyapollo's ApolloClient (src/pyapollo/apollo_client.py) and  *)
(* of its exception classes (src/pyapollo/exceptions.py): the in-memory    *)
(* cache, the release-key table, the cache directory, and the              *)
(* synchronization pass run by the constructor, by start() and by the      *)
(* background polling thread.                                              *)
(*                                                                         *)
(* Names (application ids, namespaces, file names) are sequences of the    *)
(* segments that "_" separates: the namespace "my_db" is <<"my", "db">>.   *)
(* The remote server, the reachability probe and the file system's write   *)
(* are the environment: every outcome they can produce is drawn with \E.   *)
(*                                                                         *)
(* Spec follows one construction and one start(); SpecCalls follows the    *)
(* client constructed again through the registry of __new__; SpecStarted   *)
(* follows a started client whose caller constructs it again while the     *)
(* background thread runs.                                                 *)
(***************************************************************************)
EXTENDS Naturals, Sequences, FiniteSets, TLC

VARIABLES
    _cache,             \* self._cache: namespace -> snapshot (a dict: partial)
    _hash,              \* self._hash: namespace -> release key last written
    files,              \* the cache directory: file name -> text
    phase,              \* the caller's position: new, constructing, constructed, ...
    pc,                 \* each thread's position in _read_from_server
    ctx,                \* who runs the thread's pass: ctor, start, loop
    todo,               \* the keys of self._notification_map the pass's for loop has not yet processed
    polls,              \* the passes the background loop has begun
    pend,               \* what _get_config_by_namespace still has to do for Head(todo)
    okNow,              \* history: namespaces whose fetch succeeded in the thread's current pass
    failNow,            \* history: namespaces whose fetch failed in the thread's current pass
    ioFailNow,          \* history: namespaces whose record could not be written in the current pass
    disc,               \* history: how the pass's discovery call ended
    lastRemote,         \* history: namespace -> snapshot of its most recent successful fetch
    lastLocal,          \* history: namespace -> snapshot most recently loaded from disk
    wt,                 \* history: what the last step's _update_local_cache call did
    sameKeyWrites,      \* history: namespace -> disk writes made with the key now in _hash
    startPass,          \* history: start()'s decision about the extra pass
    noConfAtStart,      \* history: the cache held no configuration when start() was called
    _instance,          \* cls._instance: registry key -> the instance kept for it
    app_id,             \* self.app_id of the client
    obtained            \* history: each construction call and the instance it returned

vars == <<_cache, _hash, files, phase, pc, ctx, todo, polls, pend,
          okNow, failNow, ioFailNow, disc, lastRemote, lastLocal, wt,
          sameKeyWrites, startPass, noConfAtStart, _instance, app_id, obtained>>

\* What only a construction call changes.
construction == <<_instance, app_id, obtained>>

----------------------------------------------------------------------------
(* Names *)

AppId == <<"test">>
OtherAppId == <<"other">>
Application == <<"application">>
MyDb == <<"my", "db">>
Db == <<"db">>

\* The namespaces the server can list for (AppId, cluster).
Namespaces == {Application, MyDb}

\* Every name get_value may be asked about.
AllNames == Namespaces \cup {Db}

Threads == {"main", "poller"}

\* The passes of the background loop that the model follows.
MaxPolls == 2

\* The construction calls that the model follows.
MaxCalls == 2

----------------------------------------------------------------------------
(* Python values *)

None == "None"
Keys == {"timeout"}
NoVal == "<no key>"

\* A dict over Keys: a key maps to its value, or to NoVal when the dict lacks it.
Snap(v) == [k \in Keys |-> v]
EmptyDict == Snap(NoVal)
DictKeys(d) == {k \in Keys : d[k] # NoVal}

\* dict.get(key, default)
DictGet(d, key, default) == IF d[key] # NoVal THEN d[key] ELSE default

\* d[k] = v on a dict whose keys are arbitrary names
Put(d, k, v) == [x \in (DOMAIN d) \cup {k} |-> IF x = k THEN v ELSE d[x]]

\* d without the key k
Drop(d, k) == [x \in (DOMAIN d) \ {k} |-> d[x]]

EmptyMap == [x \in {} |-> EmptyDict]
EmptyTable == [x \in {} |-> None]

\* Texts: what a file or a "configurations" field holds.
T60 == "{\"timeout\": \"60\"}"
T90 == "{\"timeout\": \"90\"}"
TEmpty == "{}"
TBad == "{\"timeout\": "

\* json.loads(text): the dict, or a JSONDecodeError (a ValueError).
JsonLoads(text) ==
    CASE text = T60 -> [ok |-> TRUE, val |-> Snap("60")]
      [] text = T90 -> [ok |-> TRUE, val |-> Snap("90")]
      [] text = TEmpty -> [ok |-> TRUE, val |-> EmptyDict]
      [] OTHER -> [ok |-> FALSE, val |-> EmptyDict]

----------------------------------------------------------------------------
(* Exceptions *)

BasicExceptions == {"NameSpaceNotFoundException", "ServerNotResponseException"}

\* The classes "except Exception" catches; the BasicException classes derive
\* from BaseException and are not among them.
IsException(exc) == exc \notin BasicExceptions

\* str(e) raises AttributeError for a BasicException: __str__ reads
\* self.__name__, which an instance does not have.
StrRaises(exc) == exc \in BasicExceptions

----------------------------------------------------------------------------
(* The environment: the transport and the reachability probe *)

\* What requests.get does, and for a read timeout what the Telnet probe does.
NetOutcomes ==
    {[transport |-> x, probe |-> "-"] : x \in {"200", "404", "ConnectionError"}}
    \cup {[transport |-> "ReadTimeout", probe |-> p] :
             p \in {"accepted", "refused", "unresolved"}}

\* _http_get: the response's status, or the exception it raises.
\* A read timeout probes the host: a connection accepted raises
\* NameSpaceNotFoundException, one refused ServerNotResponseException, and any
\* other probe error (the host name does not resolve, the probe times out)
\* leaves as the OSError it is.
_http_get(net) ==
    CASE net.transport = "200" -> [raised |-> None, status |-> 200]
      [] net.transport = "404" -> [raised |-> None, status |-> 404]
      [] net.transport = "ConnectionError" -> [raised |-> "ConnectionError", status |-> 0]
      [] net.transport = "ReadTimeout" /\ net.probe = "accepted" ->
            [raised |-> "NameSpaceNotFoundException", status |-> 0]
      [] net.transport = "ReadTimeout" /\ net.probe = "refused" ->
            [raised |-> "ServerNotResponseException", status |-> 0]
      [] OTHER -> [raised |-> "OSError", status |-> 0]

\* The releases the server publishes: release key -> configurations text.
ReleaseKeys == {"r1", "r2"}
ConfigurationsOf(rk) == IF rk = "r1" THEN T60 ELSE T90

\* The bodies a 200 response of releases/latest can carry: a release, a
\* release whose body lacks "releaseKey", or configurations that do not parse.
Missing == "<missing>"
ReleaseBodies ==
    {[releaseKey |-> rk, configurations |-> ConfigurationsOf(rk)] : rk \in ReleaseKeys}
    \cup {[releaseKey |-> Missing, configurations |-> T60],
          [releaseKey |-> "r1", configurations |-> TBad]}

\* The orders in which a namespace listing (or a directory listing) can
\* enumerate the members of S.
Orders(S) ==
    {s \in [1..Cardinality(S) -> S] : \A i, j \in DOMAIN s : i # j => s[i] # s[j]}

\* The listings a 200 response of the namespaces endpoint can carry.
Listings == UNION {Orders(S) : S \in SUBSET Namespaces}

----------------------------------------------------------------------------
(* The cache directory *)

\* "%s_configuration_%s.txt" % (app_id, namespace)
FileName(app, namespace) ==
    [simple |-> app \o <<"configuration">> \o namespace, ext |-> ".txt"]

\* file_simple_name.split("_")[-1]
LastSegment(simple) == <<simple[Len(simple)]>>

\* The directories the program can start with: records of this application
\* and of another one, well-formed or not.
InitDirs ==
    {[f \in {FileName(AppId, n) : n \in own} \cup {FileName(OtherAppId, n) : n \in other}
        |-> IF f \in bad THEN TBad ELSE T90] :
        own \in SUBSET Namespaces, other \in SUBSET {Application},
        bad \in SUBSET {FileName(AppId, n) : n \in Namespaces}}

\* _get_local_cache_by_namespace on the directory dir: the parsed record, {}
\* when there is no file, or the JSONDecodeError of json.loads.  (Every text
\* of the model is one line, so readline() reads the whole record.)
LocalCache(dir, namespace) ==
    LET cache_file_path == FileName(app_id, namespace) IN
    IF cache_file_path \in DOMAIN dir
    THEN LET result == JsonLoads(dir[cache_file_path]) IN
         IF result.ok
         THEN [raised |-> None, val |-> result.val, found |-> TRUE]
         ELSE [raised |-> "JSONDecodeError", val |-> EmptyDict, found |-> TRUE]
    ELSE [raised |-> None, val |-> EmptyDict, found |-> FALSE]

_get_local_cache_by_namespace(namespace) == LocalCache(files, namespace)

\* History: lastLocal once namespace was loaded from disk with snapshot val; it
\* is kept only while no fetch of the namespace has succeeded.
Loaded(loaded, namespace, val) ==
    IF namespace \in DOMAIN lastRemote THEN loaded ELSE Put(loaded, namespace, val)

\* _read_from_local_cache_file, from the i-th file of the listing on: every
\* file that is not a .swp is parsed and stored under the last "_" segment of
\* its name; the first file that does not parse raises.
RECURSIVE ReadFrom(_, _, _, _)
ReadFrom(listing, i, cache, loaded) ==
    IF i > Len(listing)
    THEN [raised |-> None, cache |-> cache, loaded |-> loaded]
    ELSE LET file_name == listing[i] IN
         IF file_name.ext = ".swp"
         THEN ReadFrom(listing, i + 1, cache, loaded)
         ELSE LET namespace == LastSegment(file_name.simple)
                  parsed == JsonLoads(files[file_name])
              IN IF parsed.ok
                 THEN ReadFrom(listing, i + 1, Put(cache, namespace, parsed.val),
                               Loaded(loaded, namespace, parsed.val))
                 ELSE [raised |-> "JSONDecodeError", cache |-> cache, loaded |-> loaded]

_read_from_local_cache_file(listing) == ReadFrom(listing, 1, _cache, lastLocal)

\* self._hash.get(namespace)
HashGet(namespace) == IF namespace \in DOMAIN _hash THEN _hash[namespace] ELSE None

\* What the file system does with open(path, "w") and f.write(data): both
\* succeed, open fails (the file is untouched), or write fails after open
\* truncated the file.
IoOutcomes == {"ok", "open_fails", "write_fails"}
TTruncated == ""

\* with open(..., "w") as f: f.write(data), then
\* self._hash[namespace] = release_key.
WriteRecord(release_key, data, namespace, io) ==
    CASE io = "ok" ->
            [raised |-> None, did |-> "written",
             files |-> Put(files, FileName(app_id, namespace), data),
             hash |-> Put(_hash, namespace, release_key)]
      [] io = "open_fails" ->
            [raised |-> "OSError", did |-> "ioerror", files |-> files, hash |-> _hash]
      [] OTHER ->
            [raised |-> "OSError", did |-> "ioerror",
             files |-> Put(files, FileName(app_id, namespace), TTruncated),
             hash |-> _hash]

\* The write-through without the release-key test: every call writes.
UngatedUpdate(release_key, data, namespace, io) ==
    WriteRecord(release_key, data, namespace, io)

\* _update_local_cache: when the key differs from the one in _hash, writes the
\* record and then records the key; an I/O error leaves before the key is
\* recorded.
_update_local_cache(release_key, data, namespace, io) ==
    IF HashGet(namespace) # release_key
    THEN WriteRecord(release_key, data, namespace, io)
    ELSE [raised |-> None, did |-> "skipped", files |-> files, hash |-> _hash]

\* get_value
get_value(key, default_val, namespace) ==
    IF namespace \in DOMAIN _cache
    THEN DictGet(_cache[namespace], key, default_val)
    ELSE default_val

----------------------------------------------------------------------------
(* Remote calls *)

\* Discovery that answers a non-success response with an empty dict, as
\* _get_clusters does.
EmptyOnNonSuccess(net, listing) ==
    LET r == _http_get(net) IN
    IF r.raised # None
    THEN [raised |-> r.raised, val |-> <<>>]
    ELSE IF r.status = 200
         THEN [raised |-> None, val |-> listing]
         ELSE [raised |-> None, val |-> <<>>]

\* _get_namespaces: the listing of a 200 response, the sentinel
\* {"application": -1} for any other response; an exception of _http_get is
\* not caught here.
_get_namespaces(net, listing) ==
    LET r == _http_get(net) IN
    IF r.raised # None
    THEN [raised |-> r.raised, val |-> <<>>]
    ELSE IF r.status = 200
         THEN [raised |-> None, val |-> listing]
         ELSE [raised |-> None, val |-> <<Application>>]

NoPend == [stage |-> "-", releaseKey |-> "-", configurations |-> "-", exc |-> None]

\* Where the except clauses of _read_from_server leave an exception that
\* reaches them: an Exception starts the cold-start recovery, anything else
\* (a BasicException) leaves the pass.
AfterRaise(exc) == IF IsException(exc) THEN "cold" ELSE "raise"

\* The rest of the try block of _get_config_by_namespace, after the response
\* was obtained: the log line and the write-through of a 200 response, the
\* local fallback of another response; an exception of _http_get or of the
\* parse is already in flight.
TryRest(namespace, p, io) ==
    CASE p.stage = "log" ->
            IF p.releaseKey = Missing
            THEN [exc |-> "KeyError", cache |-> _cache, hash |-> _hash,
                  files |-> files, did |-> "none", local |-> FALSE]
            ELSE LET u == _update_local_cache(p.releaseKey, p.configurations, namespace, io)
                 IN [exc |-> u.raised, cache |-> _cache, hash |-> u.hash,
                     files |-> u.files, did |-> u.did, local |-> FALSE]
      [] p.stage = "else" ->
            LET data == _get_local_cache_by_namespace(namespace) IN
            IF data.raised # None
            THEN [exc |-> data.raised, cache |-> _cache, hash |-> _hash,
                  files |-> files, did |-> "none", local |-> FALSE]
            ELSE [exc |-> None, cache |-> Put(_cache, namespace, data.val), hash |-> _hash,
                  files |-> files, did |-> "none", local |-> data.found]
      [] OTHER ->
            [exc |-> p.exc, cache |-> _cache, hash |-> _hash,
             files |-> files, did |-> "none", local |-> FALSE]

\* The except BaseException clause: str(e) for the log line, then the local
\* fallback, which reads the directory dir as the try block left it.  What the
\* clause raises itself escapes _get_config_by_namespace.
Handler(namespace, exc, dir) ==
    IF StrRaises(exc)
    THEN [escaped |-> "AttributeError", cache |-> _cache, local |-> FALSE]
    ELSE LET data == LocalCache(dir, namespace) IN
         IF data.raised # None
         THEN [escaped |-> data.raised, cache |-> _cache, local |-> FALSE]
         ELSE [escaped |-> None, cache |-> Put(_cache, namespace, data.val),
               local |-> data.found]

----------------------------------------------------------------------------
(* The registry of instances: __new__ *)

\* A construction call ApolloClient(app_id=app): no positional argument, one
\* keyword argument.
Call(app) == [args |-> <<>>, kwargs |-> [x \in {"app_id"} |-> app]]

\* The construction calls the model follows.
Calls == {Call(AppId), Call(OtherAppId)}

\* The keyword names of __init__, in sorted order.
SortedNames ==
    <<"app_id", "authorization", "cache_file_path", "cluster", "config_server_url",
      "env", "sync_time", "timeout">>

\* sorted(kwargs): the sorted list of the keyword names of the call.
SortedKwargs(kwargs) == SelectSeq(SortedNames, LAMBDA x : x \in DOMAIN kwargs)

\* key = repr((args, sorted(kwargs)))
RegistryKey(call) == <<call.args, SortedKwargs(call.kwargs)>>

\* __new__: the instance kept under the call's key, created when there is
\* none; instances are numbered in the order of their creation.
__new__(call) ==
    LET key == RegistryKey(call) IN
    IF key \in DOMAIN _instance
    THEN [registry |-> _instance, obj |-> _instance[key]]
    ELSE LET o == Cardinality(DOMAIN _instance) + 1 IN
         [registry |-> Put(_instance, key, o), obj |-> o]

----------------------------------------------------------------------------
(* Initial state *)

Init ==
    /\ _cache = EmptyMap
    /\ _hash = EmptyTable
    /\ files \in InitDirs
    /\ phase = "new"
    /\ pc = [t \in Threads |-> "idle"]
    /\ ctx = [t \in Threads |-> "-"]
    /\ todo = [t \in Threads |-> <<>>]
    /\ polls = 0
    /\ pend = [t \in Threads |-> NoPend]
    /\ okNow = [t \in Threads |-> {}]
    /\ failNow = [t \in Threads |-> {}]
    /\ ioFailNow = [t \in Threads |-> {}]
    /\ disc = [t \in Threads |-> "-"]
    /\ lastRemote = EmptyMap
    /\ lastLocal = EmptyMap
    /\ wt = "none"
    /\ sameKeyWrites = [x \in {} |-> 0]
    /\ startPass = "notcalled"
    /\ noConfAtStart = FALSE
    /\ _instance = [x \in {} |-> 0]
    /\ app_id = <<>>
    /\ obtained = <<>>

----------------------------------------------------------------------------
(* The constructor and start() *)

\* The pass of thread t is over and its caller goes on: the pass's history is
\* dropped.
Forget(t) ==
    /\ todo' = [todo EXCEPT ![t] = <<>>]
    /\ okNow' = [okNow EXCEPT ![t] = {}]
    /\ failNow' = [failNow EXCEPT ![t] = {}]
    /\ ioFailNow' = [ioFailNow EXCEPT ![t] = {}]
    /\ disc' = [disc EXCEPT ![t] = "-"]
    /\ wt' = "none"

\* ApolloClient(app_id=AppId), the first construction: __new__ creates the
\* client, __init__ sets its attributes and runs the first pass.
Construct ==
    /\ phase = "new"
    /\ phase' = "constructing"
    /\ LET new == __new__(Call(AppId)) IN
       /\ _instance' = new.registry
       /\ obtained' = Append(obtained, [call |-> Call(AppId), obj |-> new.obj])
    /\ app_id' = Call(AppId).kwargs.app_id
    /\ _cache' = EmptyMap
    /\ _hash' = EmptyTable
    /\ pc' = [pc EXCEPT !["main"] = "discover"]
    /\ ctx' = [ctx EXCEPT !["main"] = "ctor"]
    /\ wt' = "none"
    /\ UNCHANGED <<files, todo, polls, pend, okNow, failNow, ioFailNow, disc, lastRemote,
                   lastLocal, sameKeyWrites, startPass, noConfAtStart>>

\* __init__ returns.
CtorReturn ==
    /\ UNCHANGED construction
    /\ pc["main"] = "return" /\ ctx["main"] = "ctor"
    /\ phase' = "constructed"
    /\ pc' = [pc EXCEPT !["main"] = "idle"]
    /\ Forget("main")
    /\ UNCHANGED <<_cache, _hash, files, ctx, polls, pend, lastRemote, lastLocal,
                   sameKeyWrites, startPass, noConfAtStart>>

\* The pass's exception leaves __init__: the caller gets no client.
CtorRaise ==
    /\ UNCHANGED construction
    /\ pc["main"] = "raise" /\ ctx["main"] = "ctor"
    /\ phase' = "ctor_raised"
    /\ pc' = [pc EXCEPT !["main"] = "idle"]
    /\ Forget("main")
    /\ UNCHANGED <<_cache, _hash, files, ctx, polls, pend, lastRemote, lastLocal,
                   sameKeyWrites, startPass, noConfAtStart>>

\* t = threading.Thread(target=self._long_polling); t.start(): the thread
\* enters while True and its first pass.
Launch ==
    /\ phase' = "started"
    /\ pc' = [pc EXCEPT !["main"] = "idle", !["poller"] = "discover"]
    /\ ctx' = [ctx EXCEPT !["poller"] = "loop"]
    /\ polls' = 1

\* start(): one more pass when the cache has no entry, then the thread.
Start ==
    /\ UNCHANGED construction
    /\ phase = "constructed" /\ pc["main"] = "idle"
    /\ noConfAtStart' = (\A n \in DOMAIN _cache : DictKeys(_cache[n]) = {})
    /\ IF Cardinality(DOMAIN _cache) = 0
       THEN /\ startPass' = "ran"
            /\ phase' = "starting"
            /\ pc' = [pc EXCEPT !["main"] = "discover"]
            /\ ctx' = [ctx EXCEPT !["main"] = "start"]
            /\ UNCHANGED polls
       ELSE /\ startPass' = "skipped"
            /\ Launch
    /\ wt' = "none"
    /\ UNCHANGED <<_cache, _hash, files, todo, pend, okNow, failNow, ioFailNow, disc,
                   lastRemote, lastLocal, sameKeyWrites>>

\* start() after its own pass: launches the thread and returns.
StartReturn ==
    /\ UNCHANGED construction
    /\ pc["main"] = "return" /\ ctx["main"] = "start"
    /\ Launch
    /\ Forget("main")
    /\ UNCHANGED <<_cache, _hash, files, pend, lastRemote, lastLocal,
                   sameKeyWrites, startPass, noConfAtStart>>

\* The pass's exception leaves start(): no thread is launched.
StartRaise ==
    /\ UNCHANGED construction
    /\ pc["main"] = "raise" /\ ctx["main"] = "start"
    /\ phase' = "start_raised"
    /\ pc' = [pc EXCEPT !["main"] = "idle"]
    /\ Forget("main")
    /\ UNCHANGED <<_cache, _hash, files, ctx, polls, pend, lastRemote, lastLocal,
                   sameKeyWrites, startPass, noConfAtStart>>

----------------------------------------------------------------------------
(* The synchronization pass: _read_from_server, run by thread t *)

\* self._notification_map = self._get_namespaces(); the for loop then runs
\* over the keys of the dict this call returned.
Discover(t) ==
    /\ UNCHANGED construction
    /\ pc[t] = "discover"
    /\ \E net \in NetOutcomes, listing \in Listings :
          LET r == _get_namespaces(net, listing) IN
          /\ disc' = [disc EXCEPT ![t] =
                        IF r.raised # None THEN r.raised
                        ELSE IF _http_get(net).status = 200 THEN "200" ELSE "non200"]
          /\ todo' = [todo EXCEPT ![t] = r.val]
          /\ pc' = [pc EXCEPT ![t] =
                      IF r.raised # None THEN AfterRaise(r.raised)
                      ELSE IF r.val = <<>> THEN "return" ELSE "fetch"]
    /\ okNow' = [okNow EXCEPT ![t] = {}]
    /\ failNow' = [failNow EXCEPT ![t] = {}]
    /\ ioFailNow' = [ioFailNow EXCEPT ![t] = {}]
    /\ wt' = "none"
    /\ UNCHANGED <<_cache, _hash, files, phase, ctx, polls, pend, lastRemote,
                   lastLocal, sameKeyWrites, startPass, noConfAtStart>>

\* _get_config_by_namespace, first half: the request and, for a 200 response,
\* self._cache[namespace] = json.loads(data.get("configurations", "{}")).
HttpFetch(t) ==
    /\ UNCHANGED construction
    /\ pc[t] = "fetch"
    /\ todo[t] # <<>>
    /\ LET namespace == Head(todo[t]) IN
       \E net \in NetOutcomes, data \in ReleaseBodies :
          LET r == _http_get(net)
              parsed == JsonLoads(data.configurations)
          IN
          IF r.raised # None
          THEN /\ pend' = [pend EXCEPT ![t] = [NoPend EXCEPT !.stage = "except",
                                                             !.exc = r.raised]]
               /\ failNow' = [failNow EXCEPT ![t] = @ \cup {namespace}]
               /\ UNCHANGED <<_cache, lastRemote, lastLocal, okNow>>
          ELSE IF r.status # 200
          THEN /\ pend' = [pend EXCEPT ![t] = [NoPend EXCEPT !.stage = "else"]]
               /\ failNow' = [failNow EXCEPT ![t] = @ \cup {namespace}]
               /\ UNCHANGED <<_cache, lastRemote, lastLocal, okNow>>
          ELSE IF ~parsed.ok
          THEN /\ pend' = [pend EXCEPT ![t] = [NoPend EXCEPT !.stage = "except",
                                                             !.exc = "JSONDecodeError"]]
               /\ UNCHANGED <<_cache, lastRemote, lastLocal, okNow, failNow>>
          ELSE /\ _cache' = Put(_cache, namespace, parsed.val)
               /\ lastRemote' = Put(lastRemote, namespace, parsed.val)
               /\ lastLocal' = Drop(lastLocal, namespace)
               /\ okNow' = [okNow EXCEPT ![t] = @ \cup {namespace}]
               /\ pend' = [pend EXCEPT ![t] = [NoPend EXCEPT
                                                 !.stage = "log",
                                                 !.releaseKey = data.releaseKey,
                                                 !.configurations = data.configurations]]
               /\ UNCHANGED failNow
    /\ pc' = [pc EXCEPT ![t] = "finish"]
    /\ wt' = "none"
    /\ UNCHANGED <<_hash, files, phase, ctx, todo, polls, ioFailNow, disc,
                   sameKeyWrites, startPass, noConfAtStart>>

\* _get_config_by_namespace, second half: the log line and the write-through,
\* or the local fallback, and the except clause; then the for loop's next
\* namespace, or the except clause of _read_from_server.
Finish(t) ==
    /\ UNCHANGED construction
    /\ pc[t] = "finish"
    /\ LET namespace == Head(todo[t]) IN
       \E io \in IoOutcomes :
          LET try == TryRest(namespace, pend[t], io)
              h == Handler(namespace, try.exc, try.files)
              escaped == IF try.exc = None THEN None ELSE h.escaped
              loaded == IF try.exc = None THEN try.local ELSE h.local
              cache == IF try.exc = None THEN try.cache ELSE h.cache
          IN
          /\ _cache' = cache
          /\ _hash' = try.hash
          /\ files' = try.files
          /\ wt' = try.did
          /\ ioFailNow' = [ioFailNow EXCEPT ![t] =
                             IF try.did = "ioerror" THEN @ \cup {namespace} ELSE @]
          /\ sameKeyWrites' =
                IF try.did = "written"
                THEN Put(sameKeyWrites, namespace,
                         IF HashGet(namespace) = pend[t].releaseKey
                         THEN sameKeyWrites[namespace] + 1 ELSE 1)
                ELSE sameKeyWrites
          /\ lastLocal' = IF loaded THEN Loaded(lastLocal, namespace, cache[namespace])
                          ELSE lastLocal
          /\ pc' = [pc EXCEPT ![t] =
                      IF escaped # None THEN AfterRaise(escaped)
                      ELSE IF Tail(todo[t]) = <<>> THEN "return" ELSE "fetch"]
    /\ todo' = [todo EXCEPT ![t] = Tail(@)]
    /\ pend' = [pend EXCEPT ![t] = NoPend]
    /\ UNCHANGED <<phase, ctx, polls, okNow, failNow, disc, lastRemote, startPass,
                   noConfAtStart>>

\* except Exception: self._read_from_local_cache_file(); what that raises
\* leaves _read_from_server.
ColdStart(t) ==
    /\ UNCHANGED construction
    /\ pc[t] = "cold"
    /\ \E listing \in Orders(DOMAIN files) :
          LET r == _read_from_local_cache_file(listing) IN
          /\ _cache' = r.cache
          /\ lastLocal' = r.loaded
          /\ pc' = [pc EXCEPT ![t] = IF r.raised = None THEN "return" ELSE "raise"]
    /\ wt' = "none"
    /\ UNCHANGED <<_hash, files, phase, ctx, todo, polls, pend, okNow, failNow, ioFailNow, disc,
                   lastRemote, sameKeyWrites, startPass, noConfAtStart>>

----------------------------------------------------------------------------
(* The background thread: _long_polling *)

\* time.sleep(self._sync_time) after a pass that returned.
LoopSleep ==
    /\ UNCHANGED construction
    /\ pc["poller"] = "return" /\ ctx["poller"] = "loop"
    /\ pc' = [pc EXCEPT !["poller"] = "sleep"]
    /\ Forget("poller")
    /\ UNCHANGED <<_cache, _hash, files, phase, ctx, polls, pend, lastRemote,
                   lastLocal, sameKeyWrites, startPass, noConfAtStart>>

\* The sleep ends: while True runs the next pass.
LoopWake ==
    /\ UNCHANGED construction
    /\ pc["poller"] = "sleep"
    /\ polls < MaxPolls
    /\ polls' = polls + 1
    /\ pc' = [pc EXCEPT !["poller"] = "discover"]
    /\ wt' = "none"
    /\ UNCHANGED <<_cache, _hash, files, phase, ctx, todo, pend, okNow, failNow, ioFailNow,
                   disc, lastRemote, lastLocal, sameKeyWrites, startPass,
                   noConfAtStart>>

\* An exception leaves _read_from_server inside the thread: nothing catches
\* it, and the thread ends.
LoopDie ==
    /\ UNCHANGED construction
    /\ pc["poller"] = "raise" /\ ctx["poller"] = "loop"
    /\ pc' = [pc EXCEPT !["poller"] = "dead"]
    /\ Forget("poller")
    /\ UNCHANGED <<_cache, _hash, files, phase, ctx, polls, pend, lastRemote,
                   lastLocal, sameKeyWrites, startPass, noConfAtStart>>

----------------------------------------------------------------------------
(* Specifications *)

Pass(t) == Discover(t) \/ HttpFetch(t) \/ Finish(t) \/ ColdStart(t)

Next ==
    \/ Construct
    \/ CtorReturn
    \/ CtorRaise
    \/ Start
    \/ StartReturn
    \/ StartRaise
    \/ \E t \in Threads : Pass(t)
    \/ LoopSleep
    \/ LoopWake
    \/ LoopDie

Spec == Init /\ [][Next]_vars

----------------------------------------------------------------------------
(* The client constructed more than once *)

\* ApolloClient(app_id=...) called again while the caller holds the client:
\* __new__ returns the instance kept under the call's key, and __init__ runs
\* on it: it sets app_id, resets _cache and _hash and runs a pass in the
\* caller's thread.  (Every call the model follows has the key of the client.)
ConstructAgain(call) ==
    /\ phase \in {"constructed", "started"} /\ pc["main"] = "idle"
    /\ Len(obtained) < MaxCalls
    /\ LET new == __new__(call) IN
       /\ _instance' = new.registry
       /\ obtained' = Append(obtained, [call |-> call, obj |-> new.obj])
    /\ app_id' = call.kwargs.app_id
    /\ _cache' = EmptyMap
    /\ _hash' = EmptyTable
    /\ pc' = [pc EXCEPT !["main"] = "discover"]
    /\ ctx' = [ctx EXCEPT !["main"] = "again"]
    /\ wt' = "none"
    /\ UNCHANGED <<files, phase, todo, polls, pend, okNow, failNow, ioFailNow, disc,
                   lastRemote, lastLocal, sameKeyWrites, startPass, noConfAtStart>>

\* __init__ returns, or the pass's exception leaves it: the caller goes on
\* where it was.
AgainOver ==
    /\ UNCHANGED construction
    /\ pc["main"] \in {"return", "raise"} /\ ctx["main"] = "again"
    /\ pc' = [pc EXCEPT !["main"] = "idle"]
    /\ Forget("main")
    /\ UNCHANGED <<_cache, _hash, files, phase, ctx, polls, pend, lastRemote, lastLocal,
                   sameKeyWrites, startPass, noConfAtStart>>

\* Constructions only: the caller constructs the client and then constructs
\* again, for the same application or for another one.
NextCalls ==
    \/ Construct
    \/ CtorReturn
    \/ CtorRaise
    \/ \E t \in Threads : Pass(t)
    \/ \E call \in Calls : ConstructAgain(call)
    \/ AgainOver

SpecCalls == Init /\ [][NextCalls]_vars

\* A started client: the program's first run found the server healthy, the
\* construction pass fetched release r1 of "application" and wrote its record
\* to the empty cache directory, and start() launched the background thread,
\* which is about to run its first pass.
InitStarted ==
    /\ _cache = Put(EmptyMap, Application, Snap("60"))
    /\ _hash = Put(EmptyTable, Application, "r1")
    /\ files = [f \in {FileName(AppId, Application)} |-> T60]
    /\ phase = "started"
    /\ pc = [t \in Threads |-> IF t = "poller" THEN "discover" ELSE "idle"]
    /\ ctx = [t \in Threads |-> IF t = "poller" THEN "loop" ELSE "ctor"]
    /\ todo = [t \in Threads |-> <<>>]
    /\ polls = 1
    /\ pend = [t \in Threads |-> NoPend]
    /\ okNow = [t \in Threads |-> {}]
    /\ failNow = [t \in Threads |-> {}]
    /\ ioFailNow = [t \in Threads |-> {}]
    /\ disc = [t \in Threads |-> "-"]
    /\ lastRemote = Put(EmptyMap, Application, Snap("60"))
    /\ lastLocal = EmptyMap
    /\ wt = "none"
    /\ sameKeyWrites = [x \in {Application} |-> 1]
    /\ startPass = "skipped"
    /\ noConfAtStart = FALSE
    /\ _instance = [x \in {RegistryKey(Call(AppId))} |-> 1]
    /\ app_id = AppId
    /\ obtained = <<[call |-> Call(AppId), obj |-> 1]>>

\* The started client while its caller obtains the shared instance again with
\* the same parameters, at any moment of the background loop's first pass or
\* of the sleep that follows it.
NextStarted ==
    \/ \E t \in Threads : Pass(t)
    \/ LoopSleep
    \/ LoopDie
    \/ ConstructAgain(Call(AppId))
    \/ AgainOver

SpecStarted == InitStarted /\ [][NextStarted]_vars

----------------------------------------------------------------------------
(* Properties *)

\* The default a caller passes to get_value; no configuration value equals it.
Default == "30"

\* Thread t's pass is over: _read_from_server returned, or raised.
PassOver(t) == pc[t] \in {"return", "raise"}

\* The record persisted for (AppId, n), parsed, when there is a well-formed one.
HasRecord(n) ==
    /\ FileName(AppId, n) \in DOMAIN files
    /\ JsonLoads(files[FileName(AppId, n)]).ok
Record(n) == JsonLoads(files[FileName(AppId, n)]).val

\* C1: after a pass in which the fetch of namespace n succeeded (and its
\* record could be written), get_value returns the fetched value, not the
\* default, for every key of the fetched configurations.
C1_FetchedValueIsServed ==
    \A t \in Threads : PassOver(t) =>
        \A n \in okNow[t] \ ioFailNow[t] : \A k \in DictKeys(lastRemote[n]) :
            get_value(k, Default, n) = lastRemote[n][k]

\* C2: after a pass in which the fetch of namespace n failed while a
\* well-formed record of (AppId, n) was persisted, get_value returns the value
\* of the persisted snapshot, not the default.
C2_LocalRecordIsServedOnFailure ==
    \A t \in Threads : PassOver(t) =>
        \A n \in failNow[t] : HasRecord(n) =>
            \A k \in DictKeys(Record(n)) : get_value(k, Default, n) = Record(n)[k]

\* C3: a namespace no fetch of which ever succeeded and for which no record of
\* (AppId, n) exists yields the caller's default for every key, at any time.
C3_DefaultWithoutAnySource ==
    \A n \in AllNames :
        (n \notin DOMAIN lastRemote /\ FileName(AppId, n) \notin DOMAIN files) =>
            \A k \in Keys : get_value(k, Default, n) = Default

\* C4: a pass in which the fetch of some namespace failed still attempts the
\* fetch of every other discovered namespace: when the pass is over, no
\* discovered namespace is left unprocessed.
C4_FailureDoesNotStopThePass ==
    \A t \in Threads : (PassOver(t) /\ failNow[t] # {}) => todo[t] = <<>>

\* C5: no failure is raised to a caller: the passes that the constructor and
\* start() run never end with an exception.
C5_NothingRaisedToCaller == pc["main"] # "raise"

\* C6: the background loop never terminates: whatever happens in a pass, the
\* polling thread is not ended by it.
C6_PollingLoopNeverEnds == pc["poller"] # "dead"

\* C7: every namespace present in the cache holds the snapshot of its most
\* recent successful fetch or, when no fetch of it ever succeeded, the
\* snapshot most recently loaded for it from disk; a namespace for which
\* neither ever succeeded is absent.
C7_CacheReflectsLatestSource ==
    \A n \in DOMAIN _cache :
        IF n \in DOMAIN lastRemote
        THEN _cache[n] = lastRemote[n]
        ELSE n \in DOMAIN lastLocal /\ _cache[n] = lastLocal[n]

\* C8: write-through is idempotent.  A write-through with the release key
\* that _hash holds for the namespace writes nothing; one with another key
\* writes the record and records the key (unless the write itself fails); so
\* no namespace's record is written twice with the key _hash holds for it.
WriteThroughStep(t) ==
    /\ pc[t] = "finish" /\ pc'[t] # "finish"
    /\ pend[t].stage = "log" /\ pend[t].releaseKey # Missing
C8_WriteThroughIdempotent ==
    /\ [](\A n \in DOMAIN sameKeyWrites : sameKeyWrites[n] <= 1)
    /\ [][\A t \in Threads : WriteThroughStep(t) =>
            LET n == Head(todo[t])
                f == FileName(AppId, n)
            IN IF HashGet(n) = pend[t].releaseKey
               THEN wt' = "skipped" /\ files' = files /\ _hash' = _hash
               ELSE \/ /\ wt' = "written"
                       /\ f \in DOMAIN files' /\ files'[f] = pend[t].configurations
                       /\ n \in DOMAIN _hash' /\ _hash'[n] = pend[t].releaseKey
                    \/ wt' = "ioerror" /\ _hash' = _hash]_vars

\* C8's case: a release was fetched again with the key already written, and
\* the write-through was skipped.
C8_Witness ==
    /\ wt = "skipped"
    /\ \E n \in DOMAIN sameKeyWrites : sameKeyWrites[n] = 1 /\ n \in DOMAIN _hash

\* The step in which thread t's discovery call ends.
DiscoveryStep(t) == pc[t] = "discover" /\ pc'[t] # "discover"

\* C9 as stated: on any transport failure and on any non-success response,
\* discovery returns the sentinel holding only "application", and the pass
\* goes on to the fetch of "application".
C9_SentinelOnAnyFailure ==
    [][\A t \in Threads : (DiscoveryStep(t) /\ disc'[t] # "200") =>
          (todo'[t] = <<Application>> /\ pc'[t] = "fetch")]_vars

\* C9 as amended: on a non-success response discovery returns the sentinel
\* holding only "application", never an empty set, and the pass goes on to the
\* fetch of "application"; on a transport failure it returns nothing: the
\* exception leaves it, and the pass fetches no namespace.
C9_SentinelOnNonSuccess ==
    [][\A t \in Threads : DiscoveryStep(t) =>
          /\ disc'[t] = "non200" => (todo'[t] = <<Application>> /\ pc'[t] = "fetch")
          /\ disc'[t] \notin {"200", "non200"} =>
                (todo'[t] = <<>> /\ pc'[t] \in {"cold", "raise"})]_vars

\* C9's case: discovery got a non-success response and the pass is about to
\* fetch "application".
C9_Witness ==
    \E t \in Threads :
        disc[t] = "non200" /\ pc[t] = "fetch" /\ todo[t] = <<Application>>

\* C10: start() runs its extra pass exactly when the cache held no
\* configuration after construction, and otherwise launches the loop at once.
C10_StartRunsExtraPassIffNoConfig ==
    startPass # "notcalled" => ((startPass = "ran") <=> noConfAtStart)

\* The step that ends the update of Head(todo[t]) by the background thread t,
\* which runs while callers hold the client and read it, after the update
\* installed a fetched snapshot (line 121).
EndsInstalledUpdate(t) ==
    /\ ctx[t] = "loop"
    /\ pc[t] = "finish" /\ pc'[t] # "finish" /\ pend[t].stage = "log"

\* C11: a reader never observes an intermediate entry: the entry that an
\* update of namespace n installs is the one the update leaves, so what
\* get_value returns for n between the installation and the end of the update
\* is what it returns after the update.
C11_NoIntermediateEntry ==
    [][\A t \in Threads : EndsInstalledUpdate(t) =>
          LET n == Head(todo[t]) IN
          /\ n \in DOMAIN _cache'
          /\ \A k \in Keys : DictGet(_cache'[n], k, Default) = get_value(k, Default, n)]_vars

\* C12: one shared instance per combination of construction parameters: two
\* calls return the same instance exactly when their parameters are equal,
\* and the client a call returned keeps the app_id it was constructed with
\* whatever other application a client is constructed for afterwards.
C12_OneInstancePerParameters ==
    \A i, j \in DOMAIN obtained :
        /\ (obtained[i].obj = obtained[j].obj) <=> (obtained[i].call = obtained[j].call)
        /\ (obtained[i].obj = 1 /\ phase # "new") => app_id = obtained[i].call.kwargs.app_id

\* The step that ends thread t's handling of the namespace n.
EndsUpdate(t, n) == pc[t] = "finish" /\ pc'[t] # "finish" /\ Head(todo[t]) = n

\* Namespace n's cache entry is after the step what it was before it.
EntryKept(n) ==
    IF n \in DOMAIN _cache
    THEN n \in DOMAIN _cache' /\ _cache'[n] = _cache[n]
    ELSE n \notin DOMAIN _cache'

\* C13: when the fetch of namespace n failed and no record of (app_id, n) is
\* persisted, the handling of n leaves the cache entry of n as it was: a held
\* snapshot stays, an absent namespace stays absent.
C13_FailedFetchWithoutRecordKeepsEntry ==
    [][\A t \in Threads : \A n \in Namespaces :
          (EndsUpdate(t, n) /\ n \in failNow[t]
              /\ FileName(app_id, n) \notin DOMAIN files) => EntryKept(n)]_vars

\* C14: a pass whose discovery raised an error and which ran the cold-start
\* recovery has loaded, when it is over, every well-formed record of the
\* application, whatever malformed records the directory holds beside it.
\* (Stated for "application"; C15 is about the names that contain "_".)
C14_ColdStartSkipsMalformedRecords ==
    \A t \in Threads :
        (PassOver(t) /\ disc[t] \in {"ConnectionError", "OSError"}
            /\ HasRecord(Application)) =>
            /\ Application \in DOMAIN _cache
            /\ _cache[Application] = Record(Application)

\* The cold-start recovery of thread t's pass read every file and returned.
ColdStartReturns(t) == pc[t] = "cold" /\ pc'[t] = "return"

\* C15: a cold-start recovery loads the record of (app_id, n) under n, for
\* every name n, and changes the entry of no name for which app_id has no
\* record, whatever records of other applications the directory holds.
C15_ColdStartLoadsOwnRecordsUnderTheirNames ==
    [][\A t \in Threads : ColdStartReturns(t) =>
          \A n \in AllNames :
              IF FileName(app_id, n) \in DOMAIN files
              THEN n \in DOMAIN _cache' /\ _cache'[n] = Record(n)
              ELSE EntryKept(n)]_vars

\* C16: when the record of a fetched snapshot could not be written, the pass
\* still ends with the fetched snapshot as the namespace's cache entry and
\* with every discovered namespace processed.
C16_WriteFailureDoesNotAffectRefresh ==
    \A t \in Threads : (PassOver(t) /\ ioFailNow[t] # {}) =>
        /\ todo[t] = <<>>
        /\ \A n \in ioFailNow[t] : n \in DOMAIN _cache /\ _cache[n] = lastRemote[n]

\* C17: when the fetch of n failed with a non-success response or a transport
\* error and the record of (app_id, n) does not parse, the record counts as
\* absent: nothing is raised out of the handling of n, the entry of n is as
\* it was, and the pass goes on with the next namespace.
C17_UnreadableRecordIsNotFound ==
    [][\A t \in Threads : \A n \in Namespaces :
          (EndsUpdate(t, n) /\ n \in failNow[t] /\ ~StrRaises(pend[t].exc)
              /\ FileName(app_id, n) \in DOMAIN files /\ ~HasRecord(n)) =>
              /\ pc'[t] \in {"fetch", "return"}
              /\ EntryKept(n)]_vars

\* C18: a read timeout of the fetch of n, whichever way the probe classifies
\* it, is handled like any other fetch failure: the entry of n becomes the
\* persisted record of (app_id, n) when there is a well-formed one, and the
\* pass goes on with the next namespace.
C18_ReadTimeoutFallsBackPerNamespace ==
    [][\A t \in Threads : \A n \in Namespaces :
          (EndsUpdate(t, n) /\ pend[t].exc \in BasicExceptions) =>
              /\ pc'[t] \in {"fetch", "return"}
              /\ HasRecord(n) => (n \in DOMAIN _cache' /\ _cache'[n] = Record(n))]_vars

\* Thread t is executing a synchronization pass.
InPass(t) == pc[t] \in {"discover", "fetch", "finish", "cold"}

\* C19: at most one synchronization pass is executing at any moment.
C19_SingleWriter == Cardinality({t \in Threads : InPass(t)}) <= 1

\* C20: at the end of every pass, the record on disk of a namespace for which
\* _hash holds a key is the configurations text of the release with that key.
C20_HashKeyMatchesRecord ==
    \A t \in Threads : PassOver(t) =>
        \A n \in DOMAIN _hash :
            /\ FileName(app_id, n) \in DOMAIN files
            /\ files[FileName(app_id, n)] = ConfigurationsOf(_hash[n])

====
